---- MODULE Spec2Model ----
(***************************************************************************)
(* Weird-AI-Experiment-Ideator: the six-stage ideation pipeline of main.py *)
(* and src/crew.py, and the markdown extractor of convert_to_pdf.py.       *)
(*                                                                         *)
(* Spec            the pipeline entry point (main.py: main)                *)
(* SpecConvert     convert_markdown_to_pdf (convert_to_pdf.py)             *)
(* SpecConvertMain the conversion command (convert_to_pdf.py: main)        *)
(* SpecJson        the JSON document of a run (to_dict, json.dump/load)    *)
(* SpecIdeasPdf    generate_ideas_pdf (src/pdf_generator.py)               *)
(* SpecFullPdf     generate_full_run_pdf (src/pdf_generator.py)            *)
(*                                                                         *)
(* Texts are sequences of one-character strings.                           *)
(***************************************************************************)
EXTENDS Integers, Sequences, FiniteSets, TLC

VARIABLES
    pc,         \* main.py: position of main()
    apiKey,     \* value of os.getenv("OPENROUTER_API_KEY")
    config,     \* the other environment variables src/config.py reads
    llm,        \* per stage: the model of the agent that runs it
    tasks,      \* Crew.tasks, the list handed to Crew(...)
    context,    \* Task.context of every task, as stage names
    status,     \* per stage: "pending", "running", "done", "failed"
    output,     \* per stage: Task.output
    received,   \* per stage: the context handed to it when it was invoked
    invoked,    \* the stages in the order their external call began
    attempts,   \* per stage: number of external calls begun
    result,     \* the IdeationResult of run_ideation_session
    files,      \* artifacts written under output/
    diag,       \* TRUE once an error message has been printed
    exitCode,   \* process exit status (meaningful when pc is "exit" or "done")
    cpc,        \* convert_to_pdf.py: position of convert_markdown_to_pdf
    input,      \* the markdown document given to the converter
    runtime,    \* the interpreter's int_max_str_digits (0: no limit)
    parsed,     \* outcome of parse_markdown_to_ideas
    rendered,   \* the idea sequences handed to generate_ideas_pdf
    upc,        \* position of the function or command run on its own
    uin,        \* its arguments
    uout        \* what it has produced so far

vars == <<pc, apiKey, config, llm, tasks, context, status, output, received,
          invoked, attempts, result, files, diag, exitCode,
          cpc, input, runtime, parsed, rendered, upc, uin, uout>>

crewVars == <<config, llm>>

pipelineVars == <<pc, apiKey, config, llm, tasks, context, status, output,
                  received, invoked, attempts, result, files, diag,
                  exitCode>>

convertVars == <<cpc, input, runtime, parsed, rendered>>

unitVars == <<upc, uin, uout>>

(***************************************************************************)
(* Bounds                                                                  *)
(***************************************************************************)
MaxTextLen == 1

\* how many environment variables of src/config.py are set at once
MaxOverrides == 1

(***************************************************************************)
(* Generic helpers                                                         *)
(***************************************************************************)
Range(s) == {s[i] : i \in 1..Len(s)}

IsPrefix(s, t) == Len(s) <= Len(t) /\ \A i \in 1..Len(s) : s[i] = t[i]

(***************************************************************************)
(* src/crew.py                                                             *)
(***************************************************************************)
Stages == {"generation", "amplification_1", "amplification_2",
           "evaluation", "categorization", "synthesis"}

\* What the model provider can return for one stage.
StageTexts == UNION {[1..n -> {"a"}] : n \in 0..MaxTextLen}

NoOutput == [present |-> FALSE, raw |-> <<>>]

TaskOutput(t) == [present |-> TRUE, raw |-> t]

\* Crew(tasks=[...], process=Process.sequential)
CrewTasks ==
    <<"generation", "amplification_1", "amplification_2",
      "evaluation", "categorization", "synthesis">>

TaskContextBoth ==
    [s \in Stages |->
        CASE s = "generation"      -> <<>>
          [] s = "amplification_1" -> <<"generation">>
          [] s = "amplification_2" -> <<"generation", "amplification_1">>
          [] s = "synthesis"       ->
                <<"generation", "amplification_1", "amplification_2",
                  "evaluation", "categorization">>
          [] OTHER -> <<"generation", "amplification_1", "amplification_2">>]

TaskContextChained ==
    [s \in Stages |->
        CASE s = "generation"      -> <<>>
          [] s = "amplification_1" -> <<"generation">>
          [] s = "amplification_2" -> <<"amplification_1">>
          [] s = "evaluation"      ->
                <<"generation", "amplification_1", "amplification_2">>
          [] s = "categorization"  ->
                <<"generation", "amplification_1", "amplification_2",
                  "evaluation">>
          [] s = "synthesis"       ->
                <<"generation", "amplification_1", "amplification_2",
                  "evaluation", "categorization">>]

TaskContextForward ==
    [s \in Stages |->
        CASE s = "generation"      -> <<>>
          [] s = "amplification_1" -> <<"amplification_2">>
          [] s = "amplification_2" -> <<"amplification_1">>
          [] s = "synthesis"       ->
                <<"generation", "amplification_1", "amplification_2",
                  "evaluation", "categorization">>
          [] OTHER -> <<"generation", "amplification_1", "amplification_2">>]

\* The context argument of every create_*_task call.
TaskContext ==
    [s \in Stages |->
        CASE s = "generation"      -> <<>>
          [] s = "amplification_1" -> <<"generation">>
          [] s = "amplification_2" -> <<"amplification_1">>
          [] s = "evaluation"      ->
                <<"generation", "amplification_1", "amplification_2">>
          [] s = "categorization"  ->
                <<"generation", "amplification_1", "amplification_2">>
          [] s = "synthesis"       ->
                <<"generation", "amplification_1", "amplification_2",
                  "evaluation", "categorization">>]

\* src/config.py: the model environment variables, one per agent
ModelVars ==
    [generation      |-> "GENERATOR_MODEL",
     amplification_1 |-> "AMPLIFIER_1_MODEL",
     amplification_2 |-> "AMPLIFIER_2_MODEL",
     evaluation      |-> "EVALUATOR_MODEL",
     categorization  |-> "CATEGORIZER_MODEL",
     synthesis       |-> "SYNTHESIZER_MODEL"]

ConfigVars == {ModelVars[s] : s \in Stages} \cup {"NUM_IDEAS", "TEMPERATURE"}

DefaultModel == "openrouter/google/gemini-2.5-flash-lite"

\* the environment: every variable unset, or set to some value
Configs ==
    {c \in [ConfigVars -> {"<unset>", "set"}] :
        Cardinality({v \in ConfigVars : c[v] # "<unset>"}) <= MaxOverrides}

\* os.getenv(name, DEFAULT_MODEL)
ModelOf(cfg, s) ==
    IF cfg[ModelVars[s]] = "<unset>" THEN DefaultModel ELSE cfg[ModelVars[s]]

CrewForConfigured(cfg) ==
    [tasks   |-> IF cfg["NUM_IDEAS"] = "<unset>" THEN CrewTasks
                 ELSE <<"generation", "evaluation", "categorization",
                        "synthesis">>,
     context |-> TaskContext,
     llm     |-> [s \in Stages |-> ModelOf(cfg, s)]]

\* create_ideation_crew: the task list, the contexts and the agents' models
\* of the crew built under the environment cfg
CrewFor(cfg) ==
    [tasks   |-> CrewTasks,
     context |-> TaskContext,
     llm     |-> [s \in Stages |-> ModelOf(cfg, s)]]

\* The sequential process runs the first task of the list not yet run.
NextTask(ts, st) ==
    IF \E i \in 1..Len(ts) : st[ts[i]] = "pending"
    THEN <<ts[CHOOSE i \in 1..Len(ts) :
                 /\ st[ts[i]] = "pending"
                 /\ \A j \in 1..(i - 1) : st[ts[j]] # "pending"]>>
    ELSE <<>>

MayStartEager(ts, st, s) == NextTask(ts, st) = <<s>>

\* The sequential process starts a task only when none is being executed
\* and every task before it in the list has finished.
MayStart(ts, st, s) ==
    /\ NextTask(ts, st) = <<s>>
    /\ \A u \in Range(ts) : st[u] \in {"pending", "done"}

GatherContextAll(ctx, out, s) ==
    [i \in 1..Len(SelectSeq(CrewTasks, LAMBDA u : out[u].present)) |->
        [stage |-> SelectSeq(CrewTasks, LAMBDA u : out[u].present)[i],
         out   |-> out[SelectSeq(CrewTasks, LAMBDA u : out[u].present)[i]]]]

\* The outputs of the context tasks, as they stand when the task is started.
GatherContext(ctx, out, s) ==
    [i \in 1..Len(ctx[s]) |-> [stage |-> ctx[s][i], out |-> out[ctx[s][i]]]]

\* str(task.output) if task.output else ""
OutputText(o) == IF o.present THEN o.raw ELSE <<>>

\* what crew.kickoff() returns: an object holding the raw text of the last
\* task and the outputs of all tasks
CrewOutput(out) ==
    [type         |-> "CrewOutput",
     raw          |-> OutputText(out["synthesis"]),
     tasks_output |-> [i \in 1..Len(CrewTasks) |-> out[CrewTasks[i]].raw]]

\* IdeationResult(...) of run_ideation_session
MakeResult(out) ==
    [generation_output      |-> OutputText(out["generation"]),
     amplification_1_output |-> OutputText(out["amplification_1"]),
     amplification_2_output |-> OutputText(out["amplification_2"]),
     evaluation_output      |-> OutputText(out["evaluation"]),
     categorization_output  |-> OutputText(out["categorization"]),
     synthesis_output       |-> OutputText(out["synthesis"]),
     final_result           |-> CrewOutput(out)]

\* result is <<>> until run_ideation_session has returned, then <<r>>
NoResult == <<>>

\* the field of IdeationResult that holds the output of stage s
StageField(s) ==
    CASE s = "generation"      -> "generation_output"
      [] s = "amplification_1" -> "amplification_1_output"
      [] s = "amplification_2" -> "amplification_2_output"
      [] s = "evaluation"      -> "evaluation_output"
      [] s = "categorization"  -> "categorization_output"
      [] s = "synthesis"       -> "synthesis_output"

(***************************************************************************)
(* main.py                                                                 *)
(***************************************************************************)
Unset == "<unset>"

EnvValues == {Unset, "", "sk-or-key"}

KeyMissingOnlyUnset(k) == k = Unset

\* not os.getenv("OPENROUTER_API_KEY")
KeyMissing(k) == k = Unset \/ k = ""

\* outputs of save_individual_outputs: one file per non-empty stage output
IndividualFiles(r) ==
    {f \in {[kind |-> "md", name |-> "01_generation",
             body |-> <<r.generation_output>>],
            [kind |-> "md", name |-> "02_amplification_pass1",
             body |-> <<r.amplification_1_output>>],
            [kind |-> "md", name |-> "03_amplification_pass2_MAXIMUM_CHAOS",
             body |-> <<r.amplification_2_output>>],
            [kind |-> "md", name |-> "04_evaluation",
             body |-> <<r.evaluation_output>>],
            [kind |-> "md", name |-> "05_categorization",
             body |-> <<r.categorization_output>>],
            [kind |-> "md", name |-> "06_synthesis",
             body |-> <<r.synthesis_output>>]} : f.body[1] # <<>>}

\* the six stage texts of a result, in the order main() writes them
ResultTexts(r) ==
    <<r.generation_output, r.amplification_1_output,
      r.amplification_2_output, r.evaluation_output,
      r.categorization_output, r.synthesis_output>>

\* one f.write of a fixed string, and one of a stage's raw text
Literal(str) == [literal |-> str]

Text(t) == [text |-> t]

ReportHead ==
    <<Literal("# Weird AI Experiment Ideation - Complete Run\n\n"),
      Literal("**Generated:** <now>\n\n"),
      Literal("**Pipeline:** Generator → Amplifier #1 (blinded) → Amplifier #2 (blinded) → Evaluator → Categorizer → Synthesizer\n\n"),
      Literal("---\n\n")>>

SectionTitles ==
    <<"# Part 1: Initial Weird Ideas Generation\n\n",
      "# Part 2: First Weirdness Amplification (Blinded)\n\n",
      "# Part 3: Second Weirdness Amplification - MAXIMUM CHAOS (Also Blinded!)\n\n",
      "# Part 4: Evaluation\n\n",
      "# Part 5: Categorization\n\n",
      "# Part 6: Final Synthesis\n\n">>

SectionBlurbs ==
    <<"*The mad scientist generates the initial batch of weird ideas...*\n\n",
      "*The first amplifier thinks these are rough drafts and tries to make them weirder...*\n\n",
      "*The second amplifier ALSO thinks these are just preliminary ideas and cranks them to 11...*\n\n",
      "*Assessing all versions across all dimensions...*\n\n",
      "*Organizing the chaos into meaningful categories...*\n\n",
      "*Bringing it all together...*\n\n">>

Placeholder == "*No output captured*"

Rule == "\n\n---\n\n"

SectionBodyRaw(t) == Text(t)

\* f.write(result.<stage>_output or "*No output captured*")
SectionBody(t) == IF t = <<>> THEN Literal(Placeholder) ELSE Text(t)

\* the writes of one section; every section but the last ends with the rule
ReportSection(k, t) ==
    <<Literal(SectionTitles[k]), Literal(SectionBlurbs[k]), SectionBody(t)>>
       \o (IF k < Len(SectionTitles) THEN <<Literal(Rule)>> ELSE <<>>)

\* the combined markdown report, as the sequence of its writes
CombinedReport(r) ==
    ReportHead
       \o ReportSection(1, r.generation_output)
       \o ReportSection(2, r.amplification_1_output)
       \o ReportSection(3, r.amplification_2_output)
       \o ReportSection(4, r.evaluation_output)
       \o ReportSection(5, r.categorization_output)
       \o ReportSection(6, r.synthesis_output)

\* main(): directories, then the API-key check
MainStart ==
    /\ pc = "start"
    /\ IF KeyMissing(apiKey)
       THEN /\ diag' = TRUE
            /\ exitCode' = 1
            /\ pc' = "exit"
       ELSE /\ pc' = "session"
            /\ UNCHANGED <<diag, exitCode>>
    /\ UNCHANGED <<apiKey, tasks, context, status, output, received, invoked,
                   attempts, result, files>>
    /\ UNCHANGED <<crewVars, convertVars, unitVars>>

\* run_ideation_session: crew, tasks_dict = create_ideation_crew()
CreateCrew ==
    /\ pc = "session"
    /\ tasks' = CrewFor(config).tasks
    /\ context' = CrewFor(config).context
    /\ llm' = CrewFor(config).llm
    /\ pc' = "kickoff"
    /\ UNCHANGED <<apiKey, status, output, received, invoked, attempts,
                   result, files, diag, exitCode>>
    /\ UNCHANGED <<config, convertVars, unitVars>>

\* crew.kickoff(): the next task's external call begins
StageBegin(s) ==
    /\ pc = "kickoff"
    /\ MayStart(tasks, status, s)
    /\ status' = [status EXCEPT ![s] = "running"]
    /\ received' = [received EXCEPT ![s] = GatherContext(context, output, s)]
    /\ invoked' = Append(invoked, s)
    /\ attempts' = [attempts EXCEPT ![s] = @ + 1]
    /\ UNCHANGED <<pc, apiKey, tasks, context, output, result, files, diag,
                   exitCode>>
    /\ UNCHANGED <<crewVars, convertVars, unitVars>>

\* crew.kickoff(): the external call returns text, recorded as Task.output
StageComplete(s) ==
    /\ pc = "kickoff"
    /\ status[s] = "running"
    /\ \E t \in StageTexts : output' = [output EXCEPT ![s] = TaskOutput(t)]
    /\ status' = [status EXCEPT ![s] = "done"]
    /\ UNCHANGED <<pc, apiKey, tasks, context, received, invoked, attempts,
                   result, files, diag, exitCode>>
    /\ UNCHANGED <<crewVars, convertVars, unitVars>>

AfterFailureRetry(st, s) == [st EXCEPT ![s] = "pending"]

\* What a failed external call leaves behind: the exception leaves kickoff
\* and run_ideation_session and reaches the except clause of main().
AfterFailure(st, s) == [st EXCEPT ![s] = "failed"]

StageFail(s) ==
    /\ pc = "kickoff"
    /\ status[s] = "running"
    /\ status' = AfterFailure(status, s)
    /\ pc' = IF status'[s] = "failed" THEN "except" ELSE pc
    /\ UNCHANGED <<apiKey, tasks, context, output, received, invoked,
                   attempts, result, files, diag, exitCode>>
    /\ UNCHANGED <<crewVars, convertVars, unitVars>>

CollectOutputsPartial ==
    /\ pc = "kickoff"
    /\ \A s \in Stages : status[s] # "running"
    /\ result' = <<MakeResult(output)>>
    /\ pc' = "save_individual"
    /\ UNCHANGED <<apiKey, tasks, context, status, output, received, invoked,
                   attempts, files, diag, exitCode>>
    /\ UNCHANGED <<crewVars, convertVars, unitVars>>

\* run_ideation_session: kickoff has returned; build the IdeationResult
CollectOutputs ==
    /\ pc = "kickoff"
    /\ NextTask(tasks, status) = <<>>
    /\ \A s \in Range(tasks) : status[s] = "done"
    /\ result' = <<MakeResult(output)>>
    /\ pc' = "save_individual"
    /\ UNCHANGED <<apiKey, tasks, context, status, output, received, invoked,
                   attempts, files, diag, exitCode>>
    /\ UNCHANGED <<crewVars, convertVars, unitVars>>

ResultAfterEmptied(step, r) ==
    IF step = "save_json" THEN [r EXCEPT !.synthesis_output = <<>>] ELSE r

\* the IdeationResult object after a saving step was handed it: the saving
\* functions, to_dict and generate_full_run_pdf only read its fields
ResultAfter(step, r) == r

\* main(): save_individual_outputs(result, markdown_path, timestamp)
SaveIndividual ==
    /\ pc = "save_individual"
    /\ files' = files \cup IndividualFiles(result[1])
    /\ pc' = "save_combined"
    /\ result' = <<ResultAfter("save_individual", result[1])>>
    /\ UNCHANGED <<apiKey, tasks, context, status, output, received, invoked,
                   attempts, diag, exitCode>>
    /\ UNCHANGED <<crewVars, convertVars, unitVars>>

\* main(): the combined markdown report
SaveCombined ==
    /\ pc = "save_combined"
    /\ files' = files \cup {[kind |-> "md", name |-> "COMPLETE",
                             body |-> CombinedReport(result[1])]}
    /\ pc' = "save_json"
    /\ result' = <<ResultAfter("save_combined", result[1])>>
    /\ UNCHANGED <<apiKey, tasks, context, status, output, received, invoked,
                   attempts, diag, exitCode>>
    /\ UNCHANGED <<crewVars, convertVars, unitVars>>

\* main(): json.dump(json_data, f)
SaveJson ==
    /\ pc = "save_json"
    /\ files' = files \cup {[kind |-> "json", name |-> "ideation",
                             body |-> ResultTexts(result[1])]}
    /\ pc' = "pdf"
    /\ result' = <<ResultAfter("save_json", result[1])>>
    /\ UNCHANGED <<apiKey, tasks, context, status, output, received, invoked,
                   attempts, diag, exitCode>>
    /\ UNCHANGED <<crewVars, convertVars, unitVars>>

AfterPdfPropagates(ok) == IF ok THEN "summary" ELSE "except"

\* where main() goes on after generate_full_run_pdf returned (ok) or raised:
\* `except Exception as pdf_error` prints a warning and sets pdf_file = None
AfterPdf(ok) == "summary"

\* main(): generate_full_run_pdf inside its own try/except
GeneratePdf ==
    /\ pc = "pdf"
    /\ \E ok \in BOOLEAN :
          /\ files' = IF ok
                      THEN files \cup {[kind |-> "pdf", name |-> "ideation",
                                        body |-> ResultTexts(result[1])]}
                      ELSE files
          /\ pc' = AfterPdf(ok)
    /\ result' = <<ResultAfter("pdf", result[1])>>
    /\ UNCHANGED <<apiKey, tasks, context, status, output, received, invoked,
                   attempts, diag, exitCode>>
    /\ UNCHANGED <<crewVars, convertVars, unitVars>>

\* main(): the output summary, then normal return
PrintSummary ==
    /\ pc = "summary"
    /\ pc' = "done"
    /\ exitCode' = 0
    /\ UNCHANGED <<apiKey, tasks, context, status, output, received, invoked,
                   attempts, result, files, diag>>
    /\ UNCHANGED <<crewVars, convertVars, unitVars>>

\* main(): except Exception as e: print, traceback, sys.exit(1)
HandleError ==
    /\ pc = "except"
    /\ diag' = TRUE
    /\ exitCode' = 1
    /\ pc' = "exit"
    /\ UNCHANGED <<apiKey, tasks, context, status, output, received, invoked,
                   attempts, result, files>>
    /\ UNCHANGED <<crewVars, convertVars, unitVars>>

(***************************************************************************)
(* convert_to_pdf.py: text primitives (str methods and slices)             *)
(***************************************************************************)
NL == "\n"

\* str.strip() and the regex class of blanks, on the characters of the model
White == {" ", "\t", "\n", "\r", "\f"}

\* the regex class of digits
Digits == {"0", "1", "2", "3", "4", "5", "6", "7", "8", "9"}

Uppers ==
    <<"A", "B", "C", "D", "E", "F", "G", "H", "I", "J", "K", "L", "M", "N",
      "O", "P", "Q", "R", "S", "T", "U", "V", "W", "X", "Y", "Z">>

Lowers ==
    <<"a", "b", "c", "d", "e", "f", "g", "h", "i", "j", "k", "l", "m", "n",
      "o", "p", "q", "r", "s", "t", "u", "v", "w", "x", "y", "z">>

LowerAt(c, hits) == IF hits = {} THEN c ELSE Lowers[CHOOSE i \in hits : TRUE]

LowerChar(c) == LowerAt(c, {i \in 1..Len(Uppers) : Uppers[i] = c})

\* the function f on 1..n as a list
List(f) == SelectSeq(f, LAMBDA x : TRUE)

\* str.lower()
Lower(s) == List([i \in 1..Len(s) |-> LowerChar(s[i])])

\* s[:n]
Take(s, n) == SubSeq(s, 1, IF Len(s) < n THEN Len(s) ELSE n)

\* index of the first character at or after i that is in C, else Len(s)+1
FirstIn(s, i, C) ==
    IF \E j \in i..Len(s) : s[j] \in C
    THEN CHOOSE j \in i..Len(s) :
            s[j] \in C /\ \A k \in i..(j - 1) : s[k] \notin C
    ELSE Len(s) + 1

\* index of the first character at or after i that is not in C, else Len(s)+1
FirstNotIn(s, i, C) ==
    IF \E j \in i..Len(s) : s[j] \notin C
    THEN CHOOSE j \in i..Len(s) :
            s[j] \notin C /\ \A k \in i..(j - 1) : s[k] \in C
    ELSE Len(s) + 1

\* index of the last character that is not in C, else 0
LastNotIn(s, C) ==
    IF \E j \in 1..Len(s) : s[j] \notin C
    THEN CHOOSE j \in 1..Len(s) :
            s[j] \notin C /\ \A k \in (j + 1)..Len(s) : s[k] \in C
    ELSE 0

\* str.strip(chars)
StripChars(s, C) == SubSeq(s, FirstNotIn(s, 1, C), LastNotIn(s, C))

\* str.strip()
Strip(s) == StripChars(s, White)

\* kw in s
Contains(s, kw) ==
    \E i \in 1..(Len(s) - Len(kw) + 1) :
       \A k \in 1..Len(kw) : s[i + k - 1] = kw[k]

RECURSIVE SplitFrom(_, _)
\* the lines of s from index i on, the first of them ending before index j
SplitAt(s, i, j) ==
    IF j > Len(s)
    THEN <<SubSeq(s, i, Len(s))>>
    ELSE <<SubSeq(s, i, j - 1)>> \o SplitFrom(s, j + 1)

SplitFrom(s, i) == SplitAt(s, i, FirstIn(s, i, {NL}))

\* s.split("\n")
SplitLines(s) == SplitFrom(s, 1)

RECURSIVE JoinFrom(_, _)
JoinFrom(ls, i) ==
    IF i > Len(ls) THEN <<>>
    ELSE IF i = Len(ls) THEN ls[i]
    ELSE ls[i] \o <<NL>> \o JoinFrom(ls, i + 1)

\* "\n".join(ls)
JoinLines(ls) == JoinFrom(ls, 1)

RECURSIVE Flatten(_)
Flatten(ss) == IF ss = <<>> THEN <<>> ELSE Head(ss) \o Flatten(Tail(ss))

(***************************************************************************)
(* convert_to_pdf.py: idea_pattern and re.finditer, with re.DOTALL         *)
(***************************************************************************)
\* idea_pattern: optional line start, optional one to three '#' and blanks,
\* digits, one of ':' '.' ')', blanks, then lazily any text up to the next
\* such header at a line start or the end of the text.
MaxHashes == 3

HeaderPunct == {":", ".", ")"}

NoHeader == [ok |-> FALSE, numFrom |-> 0, numTo |-> 0, next |-> 0]

\* digits from d0 up to d1, then the punctuation
HeaderRead(s, d0, d1) ==
    IF d1 > d0 /\ d1 <= Len(s) /\ s[d1] \in HeaderPunct
    THEN [ok |-> TRUE, numFrom |-> d0, numTo |-> d1 - 1, next |-> d1 + 1]
    ELSE NoHeader

HeaderDigits(s, d0) == HeaderRead(s, d0, FirstNotIn(s, d0, Digits))

\* the run of '#' from i ends before h0: no '#', or one to three of them
\* and blanks
HeaderHashes(s, i, h0) ==
    IF h0 = i THEN HeaderDigits(s, i)
    ELSE IF h0 - i <= MaxHashes
    THEN HeaderDigits(s, FirstNotIn(s, h0, White))
    ELSE NoHeader

\* the header part of idea_pattern (hashes, blanks, digits, punctuation)
\* read at index i
HeaderAt(s, i) == HeaderHashes(s, i, FirstNotIn(s, i, {"#"}))

\* the lookahead of idea_pattern at index e: a newline followed by a
\* header, or the end of the text
LookAhead(s, e) ==
    \/ e = Len(s) + 1
    \/ e <= Len(s) /\ s[e] = NL /\ HeaderAt(s, e + 1).ok

\* the lazy second group starting at q ends at the first index after q where
\* the lookahead holds
ContentEnd(s, q) ==
    Head(SelectSeq([k \in 1..(Len(s) + 1 - q) |-> q + k],
                   LAMBDA e : LookAhead(s, e)))

NoMatch == [ok |-> FALSE, num |-> <<>>, group2 |-> <<>>, end |-> 0]

MatchSpan(s, hd, q, e) ==
    [ok |-> TRUE, num |-> SubSeq(s, hd.numFrom, hd.numTo),
     group2 |-> SubSeq(s, q, e - 1), end |-> e]

\* the second group needs one character at q (0: there is none)
MatchContent(s, hd, q) ==
    IF q > 0 THEN MatchSpan(s, hd, q, ContentEnd(s, q)) ELSE NoMatch

\* the greedy blank run from index from ends before w; it gives back its
\* last character when it has run to the end of the text
ContentStart(s, from, w) ==
    IF w <= Len(s) THEN w ELSE IF w > from THEN Len(s) ELSE 0

MatchHeader(s, hd) ==
    IF hd.ok
    THEN MatchContent(s, hd,
            ContentStart(s, hd.next, FirstNotIn(s, hd.next, White)))
    ELSE NoMatch

\* the pattern after its line-start part, read at index i
MatchBody(s, i) == MatchHeader(s, HeaderAt(s, i))

FirstOr(ms) == IF ms = <<>> THEN NoMatch ELSE Head(ms)

\* where the header may be read for a match attempt at index p: at the start
\* of the text (tried first), after a newline at p
HeaderStarts(s, p) ==
    (IF p = 1 THEN <<1>> ELSE <<>>) \o (IF s[p] = NL THEN <<p + 1>> ELSE <<>>)

MatchFrom(s, starts) ==
    FirstOr(SelectSeq([k \in 1..Len(starts) |-> MatchBody(s, starts[k])],
                      LAMBDA m : m.ok))

\* a match attempt at index p
MatchAt(s, p) == MatchFrom(s, HeaderStarts(s, p))

\* the successful match attempts, by the index they are made at
Attempts(s) ==
    SelectSeq([p \in 1..Len(s) |-> [at |-> p, m |-> MatchAt(s, p)]],
              LAMBDA a : a.m.ok)

RECURSIVE FindFrom(_, _, _)
\* re.finditer over the successful attempts: the leftmost one at or after
\* pos, then on from the end of its match
FindFrom(hits, i, pos) ==
    IF i > Len(hits) THEN <<>>
    ELSE IF hits[i].at < pos THEN FindFrom(hits, i + 1, pos)
    ELSE <<hits[i].m>> \o FindFrom(hits, i + 1, hits[i].m.end)

\* re.finditer(idea_pattern, markdown_content, re.DOTALL)
FindAll(s) == FindFrom(Attempts(s), 1, 1)

(***************************************************************************)
(* convert_to_pdf.py: parse_markdown_to_ideas                              *)
(***************************************************************************)
SectionKeys ==
    <<"description", "implementation", "feasibility",
      "potential_impact", "elevator_pitch">>

Keywords ==
    [description |->
        <<<<"d", "e", "s", "c", "r", "i", "p", "t", "i", "o", "n">>,
          <<"w", "h", "a", "t", " ", "i", "s", " ", "i", "t">>,
          <<"o", "v", "e", "r", "v", "i", "e", "w">>>>,
     implementation |->
        <<<<"i", "m", "p", "l", "e", "m", "e", "n", "t", "a", "t", "i",
            "o", "n">>,
          <<"h", "o", "w", " ", "t", "o", " ", "b", "u", "i", "l", "d">>,
          <<"t", "e", "c", "h", "n", "i", "c", "a", "l">>>>,
     feasibility |->
        <<<<"f", "e", "a", "s", "i", "b", "i", "l", "i", "t", "y">>,
          <<"d", "i", "f", "f", "i", "c", "u", "l", "t", "y">>,
          <<"r", "e", "s", "o", "u", "r", "c", "e", "s">>>>,
     potential_impact |->
        <<<<"i", "m", "p", "a", "c", "t">>,
          <<"p", "o", "t", "e", "n", "t", "i", "a", "l">>,
          <<"v", "a", "l", "u", "e">>,
          <<"o", "u", "t", "c", "o", "m", "e">>>>,
     elevator_pitch |->
        <<<<"p", "i", "t", "c", "h">>,
          <<"s", "u", "m", "m", "a", "r", "y">>,
          <<"t", "l", "d", "r">>>>]

FirstKey(hits) ==
    IF hits = {} THEN <<>>
    ELSE <<SectionKeys[CHOOSE i \in hits : \A j \in hits : i <= j]>>

SectionOfLast(lineLower) ==
    FirstKey({Len(SectionKeys) + 1 - i : i \in
                {i \in 1..Len(SectionKeys) :
                   \E k \in 1..Len(Keywords[SectionKeys[i]]) :
                      Contains(lineLower, Keywords[SectionKeys[i]][k])}})

\* the first section of section_map one of whose keywords is in the line
\* (<<>>: none)
SectionOf(lineLower) ==
    FirstKey({i \in 1..Len(SectionKeys) :
                \E k \in 1..Len(Keywords[SectionKeys[i]]) :
                   Contains(lineLower, Keywords[SectionKeys[i]][k])})

EmptySections ==
    [description |-> <<>>, implementation |-> <<>>, feasibility |-> <<>>,
     potential_impact |-> <<>>, elevator_pitch |-> <<>>]

\* current_section (<<>> is None), current_content and the section variables
ScanStart == [cur |-> <<>>, content |-> <<>>, sec |-> EmptySections]

ScanHitStripped(st, line, hit) ==
    IF hit # <<>>
    THEN [cur |-> hit,
          content |-> <<>>,
          sec |-> IF st.cur # <<>> /\ st.content # <<>>
                  THEN [st.sec EXCEPT ![st.cur[1]] = JoinLines(st.content)]
                  ELSE st.sec]
    ELSE IF st.cur # <<>>
    THEN [st EXCEPT !.content = Append(@, Strip(line))]
    ELSE st

\* one iteration of `for line in lines[1:]`, hit being the section the line
\* is a header of
ScanHit(st, line, hit) ==
    IF hit # <<>>
    THEN [cur |-> hit,
          content |-> <<>>,
          sec |-> IF st.cur # <<>> /\ st.content # <<>>
                  THEN [st.sec EXCEPT ![st.cur[1]] = JoinLines(st.content)]
                  ELSE st.sec]
    ELSE IF st.cur # <<>>
    THEN [st EXCEPT !.content = Append(@, line)]
    ELSE st

ScanStep(st, line) == ScanHit(st, line, SectionOf(Strip(Lower(line))))

RECURSIVE ScanLines(_, _, _)
ScanLines(lines, i, st) ==
    IF i > Len(lines) THEN st
    ELSE ScanLines(lines, i + 1, ScanStep(st, lines[i]))

\* "Save last section"
SaveLast(st) ==
    IF st.cur # <<>> /\ st.content # <<>>
    THEN [st.sec EXCEPT ![st.cur[1]] = Strip(JoinLines(st.content))]
    ELSE st.sec

\* the section variables of one idea span after the loop and the last save
Sections(lines) == SaveLast(ScanLines(lines, 2, ScanStart))

\* the sections a header of which was met in the span
Opened(lines) ==
    UNION {Range(SectionOf(Strip(Lower(lines[j])))) : j \in 2..Len(lines)}

PitchLimit == 200

SentenceEnd == {".", "!", "?"}

FirstSentenceKeepsDelimiter(d) == SubSeq(d, 1, FirstIn(d, 1, SentenceEnd))

\* the first element of re.split on the class of '.', '!' and '?'
FirstSentence(d) == SubSeq(d, 1, FirstIn(d, 1, SentenceEnd) - 1)

\* "If no elevator pitch found, use first sentence of description"
PitchFallback(pitch, description) ==
    IF pitch = <<>> /\ description # <<>>
    THEN Take(FirstSentence(description), PitchLimit)
    ELSE pitch

PitchPrefix ==
    <<"A", "I", " ", "e", "x", "p", "e", "r", "i", "m", "e", "n", "t", " ",
      "i", "d", "e", "a", ":", " ">>

\* elevator_pitch or f"AI experiment idea: {title}"
PitchOrDefault(pitch, title) ==
    IF pitch # <<>> THEN pitch ELSE PitchPrefix \o title

DescriptionOnly(description, content) == description

\* description or idea_content
DescriptionOrContent(description, content) ==
    IF description # <<>> THEN description ELSE content

\* lines[0].strip().strip("*#").strip()
TitleOf(lines) == Strip(StripChars(Strip(lines[1]), {"*", "#"}))

\* int(match.group(1)): the value, written without leading zeros
IntDigits(ds, k) == IF k > Len(ds) THEN <<"0">> ELSE SubSeq(ds, k, Len(ds))

IntValue(ds) == IntDigits(ds, FirstNotIn(ds, 1, {"0"}))

\* int(str) raises ValueError beyond the interpreter's digit limit
IntMaxStrDigits == 4300

IntRaises(ds, limit) == limit > 0 /\ Len(ds) > limit

\* the local variables of one iteration of the loop over the matches:
\* idea_content, title, the sections that were opened, the section variables
SpanLines(content, lines) ==
    [content |-> content,
     title   |-> TitleOf(lines),
     opened  |-> Opened(lines),
     sec     |-> Sections(lines)]

SpanOf(m) == SpanLines(Strip(m.group2), SplitLines(Strip(m.group2)))

\* the idea dict built for one match
MakeIdea(num, span) ==
    [id               |-> IntValue(num),
     title            |-> span.title,
     elevator_pitch   |->
        PitchOrDefault(PitchFallback(span.sec.elevator_pitch,
                                     span.sec.description), span.title),
     description      |->
        DescriptionOrContent(span.sec.description, span.content),
     implementation   |-> span.sec.implementation,
     feasibility      |-> span.sec.feasibility,
     potential_impact |-> span.sec.potential_impact]

NotParsed == [raised |-> FALSE, ideas |-> <<>>, spans |-> <<>>]

ParseSpans(ms, spans) ==
    [raised |-> FALSE,
     ideas  |-> List([i \in 1..Len(ms) |-> MakeIdea(ms[i].num, spans[i])]),
     spans  |-> spans]

\* the loop over the matches: the ValueError of int(), or the list of ideas
ParseMatches(ms, limit) ==
    IF \E i \in 1..Len(ms) : IntRaises(ms[i].num, limit)
    THEN [raised |-> TRUE, ideas |-> <<>>, spans |-> <<>>]
    ELSE ParseSpans(ms, List([i \in 1..Len(ms) |-> SpanOf(ms[i])]))

\* parse_markdown_to_ideas
ParseMarkdown(text, limit) == ParseMatches(FindAll(text), limit)

(***************************************************************************)
(* convert_to_pdf.py: convert_markdown_to_pdf                              *)
(***************************************************************************)
FallbackLimit == 5000

FallbackTitle ==
    <<"I", "d", "e", "a", "t", "i", "o", "n", " ", "R", "e", "p", "o", "r",
      "t">>

FallbackPitch ==
    <<"F", "u", "l", "l", " ", "i", "d", "e", "a", "t", "i", "o", "n", " ",
      "s", "e", "s", "s", "i", "o", "n", " ", "o", "u", "t", "p", "u", "t">>

FallbackIdeasWhole(text) ==
    <<[id |-> <<"1">>, title |-> FallbackTitle,
       elevator_pitch |-> FallbackPitch, description |-> text]>>

\* the single idea built from the raw content when nothing was parsed
FallbackIdeas(text) ==
    <<[id |-> <<"1">>, title |-> FallbackTitle,
       elevator_pitch |-> FallbackPitch,
       description |-> Take(text, FallbackLimit)]>>

\* the list handed to generate_ideas_pdf
IdeasForPdf(ideas, text) ==
    IF ideas = <<>> THEN FallbackIdeas(text) ELSE ideas

(***************************************************************************)
(* Markdown documents given to the converter                               *)
(***************************************************************************)
MaxPieces == 4

MaxItems == 2

Pieces ==
    <<<<"1", ".", " ", "F", "o", "o">>,
      <<"\n", "#", "#", " ", "2", ")", " ", "*", "B", "a", "r", "*">>,
      <<"\n", "D", "e", "s", "c", "r", "i", "p", "t", "i", "o", "n",
        ":", "\n">>,
      <<"I", "t", " ", "i", "s", ".", " ", "G", "o", "o", "d">>,
      <<"\n", "P", "i", "t", "c", "h", "\n">>,
      <<"\n">>,
      <<" ", "x", " ">>>>

PieceDocs ==
    {Flatten([i \in 1..Len(f) |-> Pieces[f[i]]]) :
        f \in UNION {[1..n -> 1..Len(Pieces)] : n \in 0..MaxPieces}}

\* numbered items: a title line "N. Title", then a line "Description: text"
Items ==
    [n : {<<"1">>, <<"2">>},
     title : {<<"F", "o", "o">>,
              <<"Q", "u", "u", "x">>},
     text : {<<"b", "a", "r", " ", "b", "a", "z">>,
             <<"z", "a", "p">>}]

DescriptionLabel ==
    <<"D", "e", "s", "c", "r", "i", "p", "t", "i", "o", "n", ":", " ">>

ItemText(it) ==
    it.n \o <<".", " ">> \o it.title \o <<NL>> \o DescriptionLabel \o it.text

ItemSeqs == UNION {[1..n -> Items] : n \in 1..MaxItems}

ItemsText(its) == JoinLines([i \in 1..Len(its) |-> ItemText(its[i])])

\* the example documents of the specification's testable properties
ExampleItems ==
    <<[n |-> <<"1">>, title |-> <<"F", "o", "o">>,
       text |-> <<"b", "a", "r", " ", "b", "a", "z">>],
      [n |-> <<"2">>, title |-> <<"Q", "u", "u", "x">>,
       text |-> <<"z", "a", "p">>]>>

DescribedIdea ==
    <<"1", ".", " ", "T", "\n", "D", "e", "s", "c", "r", "i", "p", "t",
      "i", "o", "n", "\n">>

\* an idea whose pitch section, and one whose title, is the run that follows
PitchedIdea ==
    <<"1", ".", " ", "T", "\n", "P", "i", "t", "c", "h", "\n">>

TitleStart == <<"1", ".", " ">>

GreatText ==
    <<"T", "h", "i", "s", " ", "i", "s", " ", "g", "r", "e", "a", "t", ".",
      " ", "I", "t", " ", "w", "o", "r", "k", "s", ".">>

\* long documents: a run of one character between a head and a tail
PadLens ==
    {0, PitchLimit, PitchLimit + 1, IntMaxStrDigits, IntMaxStrDigits + 1,
     FallbackLimit, FallbackLimit + 1}

Pad(c, n) == [i \in 1..n |-> c]

PaddedDocs ==
    {pre \o Pad(c, n) \o post :
        pre \in {<<>>, DescribedIdea, PitchedIdea, TitleStart},
        c \in {"x", "9"},
        n \in PadLens,
        post \in {<<>>, <<".", " ", "x">>, GreatText}}

Document(text, its) == [exists |-> TRUE, text |-> text, items |-> its]

MissingFile == [exists |-> FALSE, text |-> <<>>, items |-> <<>>]

\* documents with a keyword in the title line, a section opened twice, and
\* header lines that hold a keyword in upper case, in mid-line, or of two
\* sections
KeywordTitle ==
    <<"1", ".", " ", "P", "i", "t", "c", "h", " ", "d", "e", "c", "k",
      "\n", "f", "o", "o">>

ReopenedSection ==
    <<"1", ".", " ", "T", "\n", "D", "e", "s", "c", "r", "i", "p", "t",
      "i", "o", "n", "\n", "f", "o", "o", "\n", "D", "e", "s", "c", "r",
      "i", "p", "t", "i", "o", "n", "\n", "b", "a", "r">>

MixedHeaders ==
    <<"1", ".", " ", "T", "\n", "s", "t", "r", "a", "y", "\n", "O", "u",
      "r", " ", "I", "M", "P", "A", "C", "T", ":", " ", "b", "i", "g",
      "\n", " ", "i", "t", "\n", "T", "e", "c", "h", "n", "i", "c", "a",
      "l", " ", "d", "i", "f", "f", "i", "c", "u", "l", "t", "y", "\n",
      "x", " ">>

KeywordDocs == {KeywordTitle, ReopenedSection, MixedHeaders}

Inputs ==
    {Document(t, <<>>) : t \in PieceDocs \cup PaddedDocs \cup KeywordDocs}
       \cup {Document(ItemsText(its), its) : its \in ItemSeqs}
       \cup {MissingFile}

\* what the interpreter's int_max_str_digits can be (0: no limit)
Runtimes == {0, IntMaxStrDigits}

\* convert_markdown_to_pdf: the existence check and the read
ConvOpen ==
    /\ cpc = "start"
    /\ cpc' = IF input.exists THEN "read" ELSE "raised"
    /\ UNCHANGED <<input, runtime, parsed, rendered>>
    /\ UNCHANGED <<pipelineVars, unitVars>>

\* convert_markdown_to_pdf: ideas = parse_markdown_to_ideas(markdown_content)
ConvParse ==
    /\ cpc = "read"
    /\ parsed' = ParseMarkdown(input.text, runtime)
    /\ cpc' = IF parsed'.raised THEN "raised" ELSE "parsed"
    /\ UNCHANGED <<input, runtime, rendered>>
    /\ UNCHANGED <<pipelineVars, unitVars>>

\* convert_markdown_to_pdf: the fallback, then generate_ideas_pdf(ideas, ...)
ConvRender ==
    /\ cpc = "parsed"
    /\ rendered' = Append(rendered, IdeasForPdf(parsed.ideas, input.text))
    /\ cpc' = "done"
    /\ UNCHANGED <<input, runtime, parsed>>
    /\ UNCHANGED <<pipelineVars, unitVars>>

\* main() of convert_to_pdf.py: except Exception as e: print
ConvError ==
    /\ cpc = "raised"
    /\ cpc' = "failed"
    /\ UNCHANGED <<input, runtime, parsed, rendered>>
    /\ UNCHANGED <<pipelineVars, unitVars>>

UnitIdle ==
    /\ upc = "idle"
    /\ uin = <<>>
    /\ uout = <<>>

\* where the host's interrupt (SIGINT, raised as KeyboardInterrupt) can
\* reach main() inside its try block: run_ideation_session and the saving
InterruptPoints ==
    {"session", "kickoff", "save_individual", "save_combined", "save_json",
     "pdf", "summary"}

\* KeyboardInterrupt is not an Exception: neither except clause of main()
\* catches it, and nothing removes the files written so far
Interrupt ==
    /\ pc \in InterruptPoints
    /\ pc' = "interrupted"
    /\ exitCode' = 130
    /\ UNCHANGED <<apiKey, tasks, context, status, output, received, invoked,
                   attempts, result, files, diag>>
    /\ UNCHANGED <<crewVars, convertVars, unitVars>>

PipelineIdle ==
    /\ pc = "idle"
    /\ apiKey = Unset
    /\ config = [v \in ConfigVars |-> "<unset>"]
    /\ llm = [s \in Stages |-> DefaultModel]
    /\ tasks = <<>>
    /\ context = [s \in Stages |-> <<>>]
    /\ status = [s \in Stages |-> "pending"]
    /\ output = [s \in Stages |-> NoOutput]
    /\ received = [s \in Stages |-> <<>>]
    /\ invoked = <<>>
    /\ attempts = [s \in Stages |-> 0]
    /\ result = NoResult
    /\ files = {}
    /\ diag = FALSE
    /\ exitCode = 0

InitConvert ==
    /\ PipelineIdle
    /\ cpc = "start"
    /\ input \in Inputs
    /\ runtime \in Runtimes
    /\ parsed = NotParsed
    /\ rendered = <<>>
    /\ UnitIdle

NextConvert ==
    \/ ConvOpen
    \/ ConvParse
    \/ ConvRender
    \/ ConvError

SpecConvert == InitConvert /\ [][NextConvert]_vars

ConvertIdle ==
    /\ cpc = "idle"
    /\ input = MissingFile
    /\ runtime = 0
    /\ parsed = NotParsed
    /\ rendered = <<>>

Init ==
    /\ pc = "start"
    /\ apiKey \in EnvValues
    /\ config \in Configs
    /\ llm = [s \in Stages |-> DefaultModel]
    /\ tasks = <<>>
    /\ context = [s \in Stages |-> <<>>]
    /\ status = [s \in Stages |-> "pending"]
    /\ output = [s \in Stages |-> NoOutput]
    /\ received = [s \in Stages |-> <<>>]
    /\ invoked = <<>>
    /\ attempts = [s \in Stages |-> 0]
    /\ result = NoResult
    /\ files = {}
    /\ diag = FALSE
    /\ exitCode = 0
    /\ ConvertIdle
    /\ UnitIdle

Next ==
    \/ MainStart
    \/ CreateCrew
    \/ \E s \in Stages : StageBegin(s)
    \/ \E s \in Stages : StageComplete(s)
    \/ \E s \in Stages : StageFail(s)
    \/ CollectOutputs
    \/ SaveIndividual
    \/ SaveCombined
    \/ SaveJson
    \/ GeneratePdf
    \/ PrintSummary
    \/ HandleError
    \/ Interrupt

Spec == Init /\ [][Next]_vars

(***************************************************************************)
(* Properties of the pipeline (checked under Spec)                         *)
(***************************************************************************)
StageOrder ==
    <<"generation", "amplification_1", "amplification_2",
      "evaluation", "categorization", "synthesis">>

Running == {s \in Stages : status[s] = "running"}

Seen(s) == {received[s][i].stage : i \in 1..Len(received[s])}

\* What stage s was handed is exactly the recorded outputs of the stages ctx.
ReceivedExactly(s, ctx) ==
    /\ Len(received[s]) = Len(ctx)
    /\ \A i \in 1..Len(ctx) :
          /\ received[s][i].stage = ctx[i]
          /\ received[s][i].out.present
          /\ received[s][i].out = output[ctx[i]]

\* C1: the six stages are invoked in the order generation, amplification_1,
\* amplification_2, evaluation, categorization, synthesis; a stage's call
\* begins only after the previous stage's call has completed, and no two
\* stage calls are ever in progress at once.
C1_SequentialOrder ==
    /\ IsPrefix(invoked, StageOrder)
    /\ Cardinality(Running) <= 1
    /\ \A i \in 2..Len(invoked) : status[invoked[i - 1]] = "done"

C1_Witness ==
    /\ invoked = StageOrder
    /\ status["synthesis"] = "running"

\* C2: amplification_1 receives exactly the generation output;
\* amplification_2 receives exactly one prior output, that of generation or
\* that of amplification_1, never both; neither amplifier receives the
\* output of evaluation, categorization or synthesis.
C2_AmplifierBlinding ==
    /\ status["amplification_1"] # "pending"
          => ReceivedExactly("amplification_1", <<"generation">>)
    /\ status["amplification_2"] # "pending"
          => \/ ReceivedExactly("amplification_2", <<"generation">>)
             \/ ReceivedExactly("amplification_2", <<"amplification_1">>)
    /\ \A s \in {"amplification_1", "amplification_2"} :
          Seen(s) \cap {"evaluation", "categorization", "synthesis"} = {}

C2_Witness ==
    /\ status["amplification_2"] = "done"
    /\ Len(received["amplification_2"]) = 1
    /\ output["amplification_1"].raw # <<>>

\* C3: evaluation and categorization each receive exactly the outputs of
\* generation, amplification_1 and amplification_2 (not each other's), and
\* synthesis receives the outputs of all five earlier stages.
C3_DownstreamVisibility ==
    /\ \A s \in {"evaluation", "categorization"} :
          status[s] # "pending"
             => ReceivedExactly(s, <<"generation", "amplification_1",
                                     "amplification_2">>)
    /\ status["synthesis"] # "pending"
          => ReceivedExactly("synthesis",
                <<"generation", "amplification_1", "amplification_2",
                  "evaluation", "categorization">>)

C3_Witness ==
    /\ status["synthesis"] = "done"
    /\ Len(received["synthesis"]) = 5
    /\ Len(received["categorization"]) = 3

\* C4: when a stage is invoked, every stage of its context list has already
\* completed and has a recorded output; no stage reads its own output or
\* that of a stage that runs after it.
C4_ContextAlreadyRecorded ==
    \A i \in 1..Len(invoked) :
       \A k \in 1..Len(received[invoked[i]]) :
          /\ received[invoked[i]][k].out.present
          /\ received[invoked[i]][k].stage # invoked[i]
          /\ \E j \in 1..(i - 1) : invoked[j] = received[invoked[i]][k].stage
          /\ status[received[invoked[i]][k].stage] = "done"

C4_Witness ==
    /\ Len(invoked) = 6
    /\ \A s \in Stages \ {"generation"} : Len(received[s]) > 0

\* C5: a failed stage invocation aborts the run: no stage is called twice,
\* no later stage is invoked, no IdeationResult is returned (the error leaves
\* run_ideation_session), and main prints a diagnostic and exits non-zero.
C5_FailureAborts ==
    /\ \A s \in Stages : attempts[s] <= 1
    /\ \A s \in Stages :
          status[s] = "failed"
             => /\ pc \in {"except", "exit"}
                /\ result = NoResult
                /\ invoked[Len(invoked)] = s
                /\ Running = {}
                /\ \A u \in Stages \ Range(invoked) :
                      status[u] = "pending" /\ attempts[u] = 0
                /\ pc = "exit" => (diag /\ exitCode # 0)

C5_Witness ==
    /\ status["amplification_2"] = "failed"
    /\ pc = "exit"
    /\ exitCode = 1

\* C6: with the API-key variable unset or empty, the process exits with
\* status 1 and no stage or external generation call is ever made.
C6_MissingKeyExits ==
    (apiKey = Unset \/ apiKey = "")
       => /\ pc \in {"start", "exit"}
          /\ pc = "exit" => (exitCode = 1 /\ diag)
          /\ invoked = <<>>
          /\ \A s \in Stages : attempts[s] = 0 /\ status[s] = "pending"
          /\ tasks = <<>>

C6_Witness ==
    /\ apiKey = ""
    /\ pc = "exit"
    /\ exitCode = 1

\* C15 (as stated): if the host's interrupt aborts the run during a stage
\* call or during the saving of results, no markdown, JSON or PDF file of
\* the run exists afterwards.
C15_InterruptLeavesNoArtifacts == pc = "interrupted" => files = {}

PdfWritten == \E f \in files : f.kind = "pdf"

\* generate_full_run_pdf has raised: main() is past it without a PDF file
PdfFailed == pc \in {"summary", "done"} /\ ~PdfWritten

\* C16: a failure while rendering the PDF does not stop the run: the step
\* past generate_full_run_pdf leads to the summary, keeps every file already
\* written and prints no error; after a failed render the markdown and JSON
\* artifacts are still there and the process ends with status 0.
C16_RenderFailureTolerated ==
    /\ [][(pc = "pdf" /\ pc' # "interrupted")
            => /\ pc' = "summary"
               /\ files \subseteq files'
               /\ diag' = diag
               /\ exitCode' = exitCode]_vars
    /\ [](PdfFailed
            => /\ IndividualFiles(result[1]) \subseteq files
               /\ \E f \in files : f.kind = "md" /\ f.name = "COMPLETE"
               /\ \E f \in files : f.kind = "json"
               /\ ~diag
               /\ pc = "done" => exitCode = 0)

C16_Witness ==
    /\ pc = "done"
    /\ ~PdfWritten
    /\ exitCode = 0
    /\ \E f \in files : f.kind = "json"
    /\ \E f \in files : f.kind = "md" /\ f.name = "01_generation"

\* the stage lists and contexts the specification calls supported
LinearTopology ==
    [tasks   |-> <<"generation", "evaluation", "categorization",
                   "synthesis">>,
     context |-> [generation     |-> <<>>,
                  evaluation     |-> <<"generation">>,
                  categorization |-> <<"generation">>,
                  synthesis      |-> <<"generation", "evaluation",
                                       "categorization">>]]

BlindedTopology(seenByAmplifier2) ==
    [tasks   |-> <<"generation", "amplification_1", "amplification_2",
                   "evaluation", "categorization", "synthesis">>,
     context |-> [generation      |-> <<>>,
                  amplification_1 |-> <<"generation">>,
                  amplification_2 |-> <<seenByAmplifier2>>,
                  evaluation      |-> <<"generation", "amplification_1",
                                        "amplification_2">>,
                  categorization  |-> <<"generation", "amplification_1",
                                        "amplification_2">>,
                  synthesis       |-> <<"generation", "amplification_1",
                                        "amplification_2", "evaluation",
                                        "categorization">>]]

SupportedTopologies ==
    {LinearTopology, BlindedTopology("generation"),
     BlindedTopology("amplification_1")}

\* the stage list of a crew and the context of each stage of the list
TopologyOf(crew) ==
    [tasks   |-> crew.tasks,
     context |-> [s \in Range(crew.tasks) |-> crew.context[s]]]

\* C19 (as stated): each supported topology (the linear pipeline without
\* amplifiers, the blinded pipeline with amplification_2 seeing only
\* generation, and the one with amplification_2 seeing only amplification_1)
\* is built under some configuration.
C19_TopologiesByConfiguration ==
    pc = "start"
       => \A t \in SupportedTopologies :
             \E cfg \in Configs : TopologyOf(CrewFor(cfg)) = t

\* C19 (amended): whatever the configuration, the crew built is the
\* six-stage blinded pipeline in which amplification_2 sees only the output
\* of amplification_1; configuration selects only each agent's model.
C19_OneTopology ==
    tasks # <<>>
       => /\ TopologyOf([tasks |-> tasks, context |-> context])
                = BlindedTopology("amplification_1")
          /\ \A s \in Stages : llm[s] = ModelOf(config, s)

C19_Witness ==
    /\ config["NUM_IDEAS"] = "set"
    /\ tasks # <<>>
    /\ status["synthesis"] = "done"
    /\ Len(received["amplification_2"]) = 1

\* the stages that completed before stage s was invoked
CompletedBefore(s) ==
    {invoked[j] : j \in {k \in 1..Len(invoked) :
                           \E i \in (k + 1)..Len(invoked) : invoked[i] = s}}

Blinded == {"amplification_1", "amplification_2"}

\* C20 (as stated): every blinded stage receives a context that is a strict
\* subset of the stages completed before it.
C20_StrictSubset ==
    \A s \in Blinded :
       status[s] # "pending"
          => /\ Seen(s) \subseteq CompletedBefore(s)
             /\ Seen(s) # CompletedBefore(s)

\* C20 (amended): every blinded stage receives a context that is a subset
\* of the stages completed before it; for amplification_2 the subset is
\* strict (generation is withheld), while amplification_1 receives the only
\* stage completed before it, generation, so nothing is withheld from it.
C20_BlindedSubset ==
    \A s \in Blinded :
       status[s] # "pending"
          => /\ Seen(s) \subseteq CompletedBefore(s)
             /\ s = "amplification_2"
                   => /\ Seen(s) # CompletedBefore(s)
                      /\ "generation" \in CompletedBefore(s) \ Seen(s)
             /\ s = "amplification_1"
                   => Seen(s) = CompletedBefore(s) /\ Seen(s) = {"generation"}

C20_Witness ==
    /\ status["amplification_2"] = "running"
    /\ CompletedBefore("amplification_2") = {"generation", "amplification_1"}
    /\ Seen("amplification_2") = {"amplification_1"}

\* the combined reports on disk
CombinedFiles == {f \in files : f.kind = "md" /\ f.name = "COMPLETE"}

\* where the section of the k-th stage starts in the writes of a report
SectionAt(k) == Len(ReportHead) + 4 * (k - 1)

\* C22: the combined markdown report always contains the six stage sections
\* in pipeline order, separated by horizontal rules, each holding its title,
\* its canned italic blurb and then the stage's raw text, or the italic
\* placeholder when that text is empty; no section is omitted or reordered.
C22_CombinedSections ==
    \A f \in CombinedFiles :
       /\ Len(f.body) = SectionAt(Len(CrewTasks)) + 3
       /\ \A k \in 1..Len(CrewTasks) :
             /\ f.body[SectionAt(k) + 1] = [literal |-> SectionTitles[k]]
             /\ f.body[SectionAt(k) + 2] = [literal |-> SectionBlurbs[k]]
             /\ f.body[SectionAt(k) + 3] =
                   IF output[CrewTasks[k]].raw = <<>>
                   THEN [literal |-> "*No output captured*"]
                   ELSE [text |-> output[CrewTasks[k]].raw]
             /\ k > 1 => f.body[SectionAt(k)] = [literal |-> "\n\n---\n\n"]

C22_Witness ==
    /\ pc = "save_json"
    /\ output["generation"].raw = <<"a">>
    /\ output["evaluation"].raw = <<>>
    /\ \E f \in CombinedFiles :
          /\ f.body[SectionAt(1) + 3] = [text |-> <<"a">>]
          /\ f.body[SectionAt(4) + 3] = [literal |-> "*No output captured*"]
          /\ f.body[SectionAt(4) + 1] = [literal |-> "# Part 4: Evaluation\n\n"]

\* C24: once a stage's output has been recorded in the IdeationResult, no
\* later operation of the run (saving the individual files, writing the
\* combined report, JSON serialisation, PDF rendering) changes any recorded
\* stage output.
C24_RecordedOutputsKept ==
    [][result # NoResult
         => /\ result' = result
            /\ \A s \in Stages : result'[1][StageField(s)] = output[s].raw]_vars

C24_Witness ==
    /\ pc = "done"
    /\ PdfWritten
    /\ result # NoResult
    /\ result[1].synthesis_output = <<"a">>
    /\ output["synthesis"].raw = <<"a">>

\* C28: no markdown, JSON or PDF artifact of a run is written before all six
\* stages have completed, so a run in which any stage fails writes no
\* artifact at all; the IdeationResult exists only after the whole stage
\* sequence has finished.
C28_AllOrNothing ==
    /\ (files # {} \/ result # NoResult)
          => \A s \in Stages : status[s] = "done"
    /\ (\E s \in Stages : status[s] = "failed") => files = {}

C28_Witness ==
    /\ status["synthesis"] = "failed"
    /\ \A s \in Stages \ {"synthesis"} : status[s] = "done"
    /\ pc = "exit"
    /\ files = {}
    /\ result = NoResult

(***************************************************************************)
(* Properties of the conversion command (checked under SpecConvert)        *)
(***************************************************************************)
Parsed == cpc \in {"parsed", "done"}

\* p is the first sentence of d (the text before its first '.', '!' or '?',
\* or all of d when it has none), cut to at most PitchLimit characters
IsFirstSentenceCut(p, d) ==
    /\ IsPrefix(p, d)
    /\ \A i \in 1..Len(p) : p[i] \notin {".", "!", "?"}
    /\ Len(p) <= 200
    /\ \/ Len(p) = 200
       \/ Len(p) = Len(d)
       \/ d[Len(p) + 1] \in {".", "!", "?"}

NoPitchSection(i) == "elevator_pitch" \notin parsed.spans[i].opened

\* C7: when no numbered or headed idea is matched in the input, the
\* conversion hands the PDF renderer exactly one Idea whose description is
\* the first 5000 characters of the input; the renderer is never handed an
\* empty idea sequence.
C7_FallbackOnNoMatch ==
    /\ \A i \in 1..Len(rendered) : rendered[i] # <<>>
    /\ (cpc = "done" /\ parsed.ideas = <<>>)
          => /\ Len(rendered) = 1
             /\ Len(rendered[1]) = 1
             /\ IsPrefix(rendered[1][1].description, input.text)
             /\ Len(rendered[1][1].description) =
                   (IF Len(input.text) < 5000 THEN Len(input.text) ELSE 5000)

C7_Witness ==
    /\ cpc = "done"
    /\ parsed.ideas = <<>>
    /\ Len(input.text) > 5000
    /\ Len(rendered[1][1].description) = 5000

\* C8 (as stated): for numbered items "N. Title" each followed by a line
\* "Description: text", extraction yields one Idea per item, in document
\* order, with title Title and description text.
C8_ItemsTitleAndText ==
    (Parsed /\ input.items # <<>>)
       => /\ Len(parsed.ideas) = Len(input.items)
          /\ \A i \in 1..Len(input.items) :
                /\ parsed.ideas[i].title = input.items[i].title
                /\ parsed.ideas[i].description = input.items[i].text

\* C8 (amended): for such items, extraction yields one Idea per item, in
\* document order, with id N and title Title; the "Description: text" line
\* is taken as a section header and dropped, the description section stays
\* empty, and the Idea's description is the whole item after its marker,
\* "Title\nDescription: text".
C8_ItemsTitleAndContent ==
    (Parsed /\ input.items # <<>>)
       => /\ Len(parsed.ideas) = Len(input.items)
          /\ \A i \in 1..Len(input.items) :
                /\ parsed.ideas[i].id = input.items[i].n
                /\ parsed.ideas[i].title = input.items[i].title
                /\ parsed.spans[i].sec.description = <<>>
                /\ parsed.ideas[i].description =
                      input.items[i].title \o <<NL>> \o
                      <<"D", "e", "s", "c", "r", "i", "p", "t", "i", "o", "n", ":", " ">> \o
                      input.items[i].text

C8_Witness ==
    /\ Parsed
    /\ input.items = ExampleItems
    /\ Len(parsed.ideas) = 2
    /\ parsed.ideas[2].title = <<"Q", "u", "u", "x">>

\* C9 (as stated): whenever an extracted Idea has no pitch section, its
\* pitch is the first sentence of its description, cut to 200 characters.
C9_PitchIsFirstSentence ==
    Parsed =>
       \A i \in 1..Len(parsed.ideas) :
          NoPitchSection(i)
             => IsFirstSentenceCut(parsed.ideas[i].elevator_pitch,
                                   parsed.ideas[i].description)

\* C9 (amended): whenever an extracted Idea has no pitch section, then if a
\* description section with text was found and that text does not begin
\* with '.', '!' or '?', the pitch is the first sentence of the description
\* cut to 200 characters; otherwise the pitch is "AI experiment idea: "
\* followed by the title.
C9_PitchFallback ==
    Parsed =>
       \A i \in 1..Len(parsed.ideas) :
          NoPitchSection(i)
             => LET d == parsed.spans[i].sec.description
                IN  IF d # <<>> /\ d[1] \notin {".", "!", "?"}
                    THEN /\ parsed.ideas[i].description = d
                         /\ IsFirstSentenceCut(parsed.ideas[i].elevator_pitch,
                                               d)
                    ELSE parsed.ideas[i].elevator_pitch =
                            PitchPrefix \o parsed.ideas[i].title

C9_Witness ==
    /\ Parsed
    /\ Len(parsed.ideas) = 1
    /\ NoPitchSection(1)
    /\ Len(parsed.ideas[1].description) > 200
    /\ Len(parsed.ideas[1].elevator_pitch) = 200
    /\ \E k \in 1..Len(parsed.ideas[1].description) :
          parsed.ideas[1].description[k] = "."

\* C10 (as stated): parse_markdown_to_ideas never produces an error
\* outcome; for every input text it returns a sequence of Ideas.
C10_NeverRaises == ~parsed.raised

KeywordIn(l, i) ==
    \E k \in 1..Len(Keywords[SectionKeys[i]]) :
       Contains(l, Keywords[SectionKeys[i]][k])

RECURSIVE LeastHit(_, _)
\* the first section of the table, from the i-th on, a keyword of which is in
\* l (0: none)
LeastHit(l, i) ==
    IF i > Len(SectionKeys) THEN 0
    ELSE IF KeywordIn(l, i) THEN i
    ELSE LeastHit(l, i + 1)

\* for each line of a span, the section it holds a keyword of
LineKeys(lines) ==
    List([j \in 1..Len(lines) |-> LeastHit(Strip(Lower(lines[j])), 1)])

\* the lines after the title line that hold a keyword
HeaderLines(keys) == {j \in 2..Len(keys) : keys[j] # 0}

\* the last line of the block that follows the header line h
BlockEndOf(keys, h) ==
    IF \E j \in HeaderLines(keys) : j > h
    THEN (CHOOSE j \in HeaderLines(keys) :
             j > h /\ \A u \in HeaderLines(keys) : u > h => j <= u) - 1
    ELSE Len(keys)

\* the lines between the header line h and the next header line, joined;
\* stripped when they end the span
BlockText(lines, keys, h) ==
    IF BlockEndOf(keys, h) = Len(keys)
    THEN Strip(JoinLines(SubSeq(lines, h + 1, Len(keys))))
    ELSE JoinLines(SubSeq(lines, h + 1, BlockEndOf(keys, h)))

\* the header lines of section k that are followed by at least one line
Filled(keys, k) ==
    {h \in HeaderLines(keys) :
        SectionKeys[keys[h]] = k /\ BlockEndOf(keys, h) > h}

\* the text of section k: the lines that follow its last such header
SectionText(lines, keys, k) ==
    IF Filled(keys, k) = {} THEN <<>>
    ELSE BlockText(lines, keys,
                   CHOOSE h \in Filled(keys, k) :
                      \A u \in Filled(keys, k) : u <= h)

LinesGoToOpenSection(span, lines, keys) ==
    /\ span.title = Strip(StripChars(Strip(lines[1]), {"*", "#"}))
    /\ \A k \in Range(SectionKeys) :
          span.sec[k] = SectionText(lines, keys, k)

KeywordLinesAreHeaders(span, keys, first) ==
    /\ \A j \in first..Len(keys) :
          keys[j] # 0 => SectionKeys[keys[j]] \in span.opened
    /\ \A k \in span.opened :
          \E j \in first..Len(keys) : keys[j] # 0 /\ SectionKeys[keys[j]] = k

HeadersExcluded(span, lines, keys) ==
    \A k \in Range(SectionKeys) :
       \/ span.sec[k] = <<>>
       \/ \E h \in HeaderLines(keys) :
             /\ SectionKeys[keys[h]] = k
             /\ span.sec[k] = BlockText(lines, keys, h)

\* C29 (as stated): a line of a span is taken as a section header whenever
\* it holds a keyword of the table anywhere in the line, the first matching
\* section in table order winning, and the whole header line is excluded
\* from every section's content.
C29_KeywordLineIsHeader ==
    Parsed =>
       \A i \in 1..Len(parsed.spans) :
          /\ KeywordLinesAreHeaders(
                parsed.spans[i],
                LineKeys(SplitLines(parsed.spans[i].content)), 1)
          /\ HeadersExcluded(parsed.spans[i],
                             SplitLines(parsed.spans[i].content),
                             LineKeys(SplitLines(parsed.spans[i].content)))

\* C29 (amended): the same for every line of a span after its first line;
\* the first line is the title and opens no section, whatever it holds.
C29_KeywordLineAfterTitleIsHeader ==
    Parsed =>
       \A i \in 1..Len(parsed.spans) :
          /\ KeywordLinesAreHeaders(
                parsed.spans[i],
                LineKeys(SplitLines(parsed.spans[i].content)), 2)
          /\ HeadersExcluded(parsed.spans[i],
                             SplitLines(parsed.spans[i].content),
                             LineKeys(SplitLines(parsed.spans[i].content)))

C29_Witness ==
    /\ Parsed
    /\ input.text = MixedHeaders
    /\ Len(parsed.spans) = 1
    /\ parsed.spans[1].opened = {"potential_impact", "implementation"}
    /\ parsed.spans[1].sec.potential_impact = <<" ", "i", "t">>
    /\ parsed.spans[1].sec.feasibility = <<>>

(***************************************************************************)
(* The JSON document of a run: IdeationResult.to_dict (src/crew.py) and    *)
(* json.dump (main.py), read back with json.load                           *)
(***************************************************************************)
MaxJsonLen == 2

\* characters of stage texts that matter to the JSON encoding
JsonChars == {"a", "n", "\"", "\\", "\n"}

JsonTexts == UNION {[1..n -> JsonChars] : n \in 0..MaxJsonLen}

\* a Python str, as a value that can stand where a CrewOutput can
StrValue(text) == [type |-> "str", raw |-> text, tasks_output |-> <<>>]

\* str(self.final_result): the raw text of a CrewOutput, a str itself
Str(v) == StrValue(v.raw)

ToDictMisfiled(r) ==
    [generation_output      |-> r.synthesis_output,
     amplification_1_output |-> r.amplification_1_output,
     amplification_2_output |-> r.amplification_2_output,
     evaluation_output      |-> r.evaluation_output,
     categorization_output  |-> r.categorization_output,
     synthesis_output       |-> r.synthesis_output,
     final_result           |-> Str(r.final_result).raw]

\* IdeationResult.to_dict
ToDict(r) ==
    [generation_output      |-> r.generation_output,
     amplification_1_output |-> r.amplification_1_output,
     amplification_2_output |-> r.amplification_2_output,
     evaluation_output      |-> r.evaluation_output,
     categorization_output  |-> r.categorization_output,
     synthesis_output       |-> r.synthesis_output,
     final_result           |-> Str(r.final_result).raw]

OutputKeys ==
    {"generation_output", "amplification_1_output", "amplification_2_output",
     "evaluation_output", "categorization_output", "synthesis_output",
     "final_result"}

JsonEscapeCharQuoteOnly(c) == IF c = "\"" THEN <<"\\", "\"">> ELSE <<c>>

\* json.dump: how one character of a string is written
JsonEscapeChar(c) ==
    CASE c = "\"" -> <<"\\", "\"">>
      [] c = "\\" -> <<"\\", "\\">>
      [] c = "\n" -> <<"\\", "n">>
      [] OTHER    -> <<c>>

\* json.dump: a string, between double quotes
JsonString(text) ==
    <<"\"">> \o Flatten(List([i \in 1..Len(text) |-> JsonEscapeChar(text[i])]))
       \o <<"\"">>

\* json.load: the character an escape sequence stands for
JsonUnescapeChar(c) == IF c = "n" THEN "\n" ELSE c

RECURSIVE JsonDecodeFrom(_, _)
\* json.load: the characters between the double quotes, from index i on (a
\* lone backslash at the end is not valid JSON; json.dump never writes one)
JsonDecodeFrom(b, i) ==
    IF i > Len(b) THEN <<>>
    ELSE IF b[i] = "\\"
    THEN IF i = Len(b) THEN <<"?">>
         ELSE <<JsonUnescapeChar(b[i + 1])>> \o JsonDecodeFrom(b, i + 2)
    ELSE <<b[i]>> \o JsonDecodeFrom(b, i + 1)

\* json.load: a string
JsonText(enc) == JsonDecodeFrom(SubSeq(enc, 2, Len(enc) - 1), 1)

\* main(): json_data, as json.dump writes it
RenderJson(r, timestamp, now) ==
    [timestamp    |-> timestamp,
     generated_at |-> now,
     outputs      |-> [k \in OutputKeys |-> JsonString(ToDict(r)[k])]]

\* json.load, then IdeationResult(**data["outputs"])
ParseResult(doc) ==
    [generation_output      |-> JsonText(doc.outputs["generation_output"]),
     amplification_1_output |-> JsonText(doc.outputs["amplification_1_output"]),
     amplification_2_output |-> JsonText(doc.outputs["amplification_2_output"]),
     evaluation_output      |-> JsonText(doc.outputs["evaluation_output"]),
     categorization_output  |-> JsonText(doc.outputs["categorization_output"]),
     synthesis_output       |-> JsonText(doc.outputs["synthesis_output"]),
     final_result           |-> StrValue(JsonText(doc.outputs["final_result"]))]

\* the stage outputs of a completed run
JsonOutputs ==
    {[s \in Stages |->
        TaskOutput(IF s = "generation" THEN g
                   ELSE IF s = "synthesis" THEN t ELSE <<"a">>)] :
        g \in {<<>>, <<"a">>}, t \in JsonTexts}

\* datetime.now() at the successive renderings
Clock == {1, 2}

NoDocument == <<>>

JsonRender ==
    /\ upc = "start"
    /\ \E now \in Clock :
          uout' = [uout EXCEPT !.doc = <<RenderJson(uin.r, uin.timestamp, now)>>]
    /\ upc' = "rendered"
    /\ UNCHANGED uin
    /\ UNCHANGED <<pipelineVars, convertVars>>

JsonParse ==
    /\ upc = "rendered"
    /\ uout' = [uout EXCEPT !.back = <<ParseResult(uout.doc[1])>>]
    /\ upc' = "parsed"
    /\ UNCHANGED uin
    /\ UNCHANGED <<pipelineVars, convertVars>>

JsonRenderAgain ==
    /\ upc = "parsed"
    /\ \E now \in Clock :
          uout' = [uout EXCEPT
                     !.again = <<RenderJson(uout.back[1], uin.timestamp, now)>>]
    /\ upc' = "rerendered"
    /\ UNCHANGED uin
    /\ UNCHANGED <<pipelineVars, convertVars>>

InitJson ==
    /\ PipelineIdle
    /\ ConvertIdle
    /\ upc = "start"
    /\ uin \in {[r |-> MakeResult(out), timestamp |-> "20260101_120000"] :
                   out \in JsonOutputs}
    /\ uout = [doc |-> NoDocument, back |-> NoDocument, again |-> NoDocument]

NextJson ==
    \/ JsonRender
    \/ JsonParse
    \/ JsonRenderAgain

SpecJson == InitJson /\ [][NextJson]_vars

StageFields ==
    {"generation_output", "amplification_1_output", "amplification_2_output",
     "evaluation_output", "categorization_output", "synthesis_output"}

\* C11 (as stated): rendering r to the JSON document, parsing it back and
\* rendering again reproduces r without loss: every stage text and every
\* other field of r is recovered unchanged.
C11_JsonRoundTrip ==
    upc = "rerendered"
       => /\ uout.back[1] = uin.r
          /\ uout.again[1].outputs = uout.doc[1].outputs

\* C11 (amended): the round trip recovers the six stage texts unchanged and
\* recovers final_result as its string form str(final_result), not as the
\* object it was; rendering the parsed result again gives the same outputs
\* mapping (the generated_at time of the document apart).
C11_JsonRoundTripTexts ==
    upc = "rerendered"
       => /\ \A k \in StageFields : uout.back[1][k] = uin.r[k]
          /\ uout.back[1].final_result = Str(uin.r.final_result)
          /\ uout.again[1].outputs = uout.doc[1].outputs
          /\ uout.again[1].timestamp = uout.doc[1].timestamp

C11_Witness ==
    /\ upc = "rerendered"
    /\ uin.r.synthesis_output = <<"\\", "\n">>
    /\ uout.doc[1].outputs["synthesis_output"] =
          <<"\"", "\\", "\\", "\\", "n", "\"">>
    /\ uout.back[1].synthesis_output = <<"\\", "\n">>
    /\ uout.again[1].generated_at # uout.doc[1].generated_at

MaxIdeas == 2

MaxEvals == 2

\* num_top_ideas: int = 15
DefaultTopIdeas == 15

Absent == <<>>

DigitChar(d) == <<"0", "1", "2", "3", "4", "5", "6", "7", "8", "9">>[d + 1]

\* str() of an int below 100
Decimal(n) ==
    IF n < 10 THEN <<DigitChar(n)>>
    ELSE <<DigitChar(n \div 10), DigitChar(n % 10)>>

\* the tenths nearest to q quarters, a tie going to the even tenth
Tenths(q) ==
    IF (q * 5) % 2 = 0 THEN (q * 5) \div 2
    ELSE IF ((q * 5) \div 2) % 2 = 0 THEN (q * 5) \div 2
    ELSE (q * 5) \div 2 + 1

\* f"{x:.1f}" of x = q / 4
Format1(q) ==
    Decimal(Tenths(q) \div 10) \o <<".">> \o <<DigitChar(Tenths(q) % 10)>>

OutOfTen == <<"/", "1", "0">>

NotAvailable == <<"N", "/", "A">>

\* the criterion scores of the evaluations given
CriterionScores == {<<8, 6, 9, 7>>, <<9, 9, 9, 9>>}

\* the overall_score values of the evaluations given, in quarters
OverallScores == {30, 36}

\* IdeaEvaluation dictionaries (src/models.py), "idea_id" and "overall_score"
\* being keys a dictionary may lack
Evaluations ==
    {[idea_id           |-> id,
      creativity_score  |-> c[1],
      feasibility_score |-> c[2],
      uniqueness_score  |-> c[3],
      impact_score      |-> c[4],
      overall_score     |-> o] :
        id \in {Absent} \cup {<<i>> : i \in 1..MaxIdeas},
        c \in CriterionScores,
        o \in {Absent} \cup {<<q>> : q \in OverallScores}}

\* the ideas of a call: ids 1..n, no "scores" key yet
IdeaList(n) == List([i \in 1..n |-> [id |-> i, scores |-> Absent]])

\* eval_map[id], the last evaluation that has "idea_id": id
EvalMapGet(evaluations, id) ==
    LET hits == SelectSeq(evaluations, LAMBDA e : e.idea_id = <<id>>)
    IN  IF hits = <<>> THEN Absent ELSE <<hits[Len(hits)]>>

\* the merge of the evaluations into the ideas
MergeEvaluations(ideas, evaluations) ==
    List([i \in 1..Len(ideas) |->
            IF EvalMapGet(evaluations, ideas[i].id) = Absent THEN ideas[i]
            ELSE [ideas[i] EXCEPT
                    !.scores = EvalMapGet(evaluations, ideas[i].id)]])

\* x.get("scores", {}).get("overall_score", 0)
SortKey(idea) ==
    IF idea.scores = Absent THEN 0
    ELSE IF idea.scores[1].overall_score = Absent THEN 0
    ELSE idea.scores[1].overall_score[1]

\* one step of a stable descending sort
InsertDescending(sorted, x) ==
    SelectSeq(sorted, LAMBDA y : SortKey(y) >= SortKey(x)) \o <<x>>
       \o SelectSeq(sorted, LAMBDA y : SortKey(y) < SortKey(x))

RECURSIVE SortedDescending(_, _)
\* sorted(ideas, key=..., reverse=True), from index i on
SortedDescending(ideas, i) ==
    IF i = 0 THEN <<>>
    ELSE InsertDescending(SortedDescending(ideas, i - 1), ideas[i])

\* ideas_sorted before the filter
SortIdeas(ideas, evaluations, top_ideas_only) ==
    IF evaluations # <<>> /\ ~top_ideas_only
    THEN SortedDescending(ideas, Len(ideas))
    ELSE ideas

\* ideas_sorted[:num_top_ideas]
FilterTop(ideas, top_ideas_only, num_top_ideas) ==
    IF top_ideas_only
    THEN SubSeq(ideas, 1, IF num_top_ideas < Len(ideas) THEN num_top_ideas
                          ELSE Len(ideas))
    ELSE ideas

\* _add_scores_table: the second column of the table
ScoresTable(scores) ==
    [Creativity  |-> Decimal(scores.creativity_score) \o OutOfTen,
     Feasibility |-> Decimal(scores.feasibility_score) \o OutOfTen,
     Uniqueness  |-> Decimal(scores.uniqueness_score) \o OutOfTen,
     Impact      |-> Decimal(scores.impact_score) \o OutOfTen,
     Overall     |-> IF scores.overall_score = Absent THEN NotAvailable
                     ELSE Format1(scores.overall_score[1]) \o OutOfTen]

\* add_idea: the block of one idea
IdeaBlock(idea, rank) ==
    [rank  |-> rank,
     idea  |-> idea,
     table |-> IF idea.scores = Absent THEN Absent
               ELSE <<ScoresTable(idea.scores[1])>>]

\* for rank, idea in enumerate(ideas_sorted, 1): add_idea(...)
IdeaBlocks(ideas, evaluations) ==
    List([i \in 1..Len(ideas) |->
            IdeaBlock(ideas[i], IF evaluations # <<>> THEN <<i>> ELSE Absent)])

EvaluationLists ==
    UNION {[1..n -> Evaluations] : n \in 0..MaxEvals}

\* the merge: idea["scores"] = eval_map[idea["id"]] assigns into the
\* dictionaries of the caller's list, so uout.ideas is what the caller's
\* Idea records are from then on (uin keeps them as they were given)
IdeasPdfMerge ==
    /\ upc = "start"
    /\ uout' = [uout EXCEPT
                  !.ideas = MergeEvaluations(uin.ideas, uin.evaluations)]
    /\ upc' = "merged"
    /\ UNCHANGED uin
    /\ UNCHANGED <<pipelineVars, convertVars>>

IdeasPdfSort ==
    /\ upc = "merged"
    /\ uout' = [uout EXCEPT
                  !.ideas_sorted =
                     FilterTop(SortIdeas(uout.ideas, uin.evaluations,
                                         uin.top_ideas_only),
                               uin.top_ideas_only, uin.num_top_ideas)]
    /\ upc' = "sorted"
    /\ UNCHANGED uin
    /\ UNCHANGED <<pipelineVars, convertVars>>

IdeasPdfBuild ==
    /\ upc = "sorted"
    /\ uout' = [uout EXCEPT
                  !.story = IdeaBlocks(uout.ideas_sorted, uin.evaluations)]
    /\ upc' = "built"
    /\ UNCHANGED uin
    /\ UNCHANGED <<pipelineVars, convertVars>>

InitIdeasPdf ==
    /\ PipelineIdle
    /\ ConvertIdle
    /\ upc = "start"
    /\ uin \in {[ideas          |-> IdeaList(n),
                 evaluations    |-> List(ev),
                 top_ideas_only |-> top,
                 num_top_ideas  |-> num] :
                   n \in 1..MaxIdeas, ev \in EvaluationLists,
                   top \in BOOLEAN, num \in {1, DefaultTopIdeas}}
    /\ uout = [ideas |-> <<>>, ideas_sorted |-> <<>>, story |-> <<>>]

NextIdeasPdf ==
    \/ IdeasPdfMerge
    \/ IdeasPdfSort
    \/ IdeasPdfBuild

SpecIdeasPdf == InitIdeasPdf /\ [][NextIdeasPdf]_vars

\* the blocks of the story that show an overall_score
Scored(story) ==
    {i \in 1..Len(story) : SortKey(story[i].idea) > 0}

\* C12: whenever evaluations are present, the idea blocks of the ideas PDF
\* come in descending order of overall_score, whatever the optional settings
\* (top_ideas_only included).
C12_DescendingOverall ==
    (upc = "built" /\ uin.evaluations # <<>>)
       => \A i, j \in Scored(uout.story) :
             i < j => SortKey(uout.story[i].idea) >= SortKey(uout.story[j].idea)

\* C25: rendering the ideas PDF is pure with respect to its inputs:
\* generate_ideas_pdf leaves every Idea record it is given unchanged, with or
\* without evaluations.
C25_IdeasUnchanged ==
    upc = "built" => uout.ideas = uin.ideas

\* the mean of the four criterion scores, in quarters
MeanOfCriteria(scores) ==
    scores.creativity_score + scores.feasibility_score
       + scores.uniqueness_score + scores.impact_score

\* C13: the Overall row of a scores table is the arithmetic mean of the four
\* criterion scores, shown with one decimal and "/10" (8, 6, 9 and 7 give
\* "7.5/10").
C13_OverallIsMean ==
    upc = "built"
       => \A i \in 1..Len(uout.story) :
             uout.story[i].table # Absent
                => uout.story[i].table[1].Overall =
                      Format1(MeanOfCriteria(uout.story[i].idea.scores[1]))
                         \o OutOfTen

(***************************************************************************)
(* convert_to_pdf.py: main, the conversion command                         *)
(***************************************************************************)
\* how many markdown files the input directory holds
MaxBatch == 2

\* markdown files on disk: an empty one, the example report, and one whose
\* idea number is too long for int() under the default digit limit
MainDocs ==
    {Document(<<>>, <<>>),
     Document(ItemsText(ExampleItems), ExampleItems),
     Document(List(Pad("9", IntMaxStrDigits + 1)) \o <<".", " ", "x">>, <<>>)}

\* what args.input can name: nothing, a file, or a directory and the files
\* that glob("*.md") finds in it
InputPaths ==
    {[kind |-> "missing", doc |-> MissingFile, files |-> <<>>]}
       \cup {[kind |-> "file", doc |-> d, files |-> <<>>] : d \in MainDocs}
       \cup {[kind |-> "dir", doc |-> MissingFile, files |-> List(fs)] :
               fs \in UNION {[1..n -> MainDocs] : n \in 0..MaxBatch}}

\* whether convert_markdown_to_pdf(doc) raises: FileNotFoundError of its
\* own check, or what parse_markdown_to_ideas raises
ConvertRaises(doc, limit) ==
    IF ~doc.exists THEN TRUE ELSE ParseMarkdown(doc.text, limit).raised

\* whether the single-file branch raises: open() of a directory raises too
SingleRaises(path, limit) ==
    IF path.kind = "dir" THEN TRUE ELSE ConvertRaises(path.doc, limit)

\* the status of the interpreter when main() returns: no sys.exit anywhere
ExitStatus(returned) == IF returned THEN 0 ELSE 1

\* main(): parse_args, and the checks of the batch branch
MainArgs ==
    /\ upc = "start"
    /\ IF uin.batch
       THEN IF uin.path.kind # "dir"
            THEN /\ uout' = [uout EXCEPT
                               !.printed = Append(@, "not_a_directory")]
                 /\ upc' = "returned"
            ELSE IF uin.path.files = <<>>
            THEN /\ uout' = [uout EXCEPT
                               !.printed = Append(@, "no_markdown_files")]
                 /\ upc' = "returned"
            ELSE /\ uout' = [uout EXCEPT
                               !.printed = Append(@, "converting_files")]
                 /\ upc' = "batch"
       ELSE /\ upc' = "single"
            /\ uout' = [uout EXCEPT !.printed = Append(@, "converting")]
    /\ UNCHANGED uin
    /\ UNCHANGED <<pipelineVars, convertVars>>

MainBatchFileStops ==
    /\ upc = "batch"
    /\ IF ConvertRaises(uin.path.files[uout.next], uin.runtime)
       THEN /\ uout' = [uout EXCEPT !.printed = Append(@, "error_converting"),
                                    !.next = @ + 1]
            /\ upc' = "returned"
       ELSE /\ uout' = [uout EXCEPT !.printed = Append(@, "created"),
                                    !.created = Append(@, uout.next),
                                    !.next = @ + 1]
            /\ upc' = IF uout.next = Len(uin.path.files) THEN "returned"
                      ELSE "batch"
    /\ UNCHANGED uin
    /\ UNCHANGED <<pipelineVars, convertVars>>

\* main(): one turn of the loop over markdown_files, with its try/except
MainBatchFile ==
    /\ upc = "batch"
    /\ IF ConvertRaises(uin.path.files[uout.next], uin.runtime)
       THEN uout' = [uout EXCEPT !.printed = Append(@, "error_converting"),
                                 !.next = @ + 1]
       ELSE uout' = [uout EXCEPT !.printed = Append(@, "created"),
                                 !.created = Append(@, uout.next),
                                 !.next = @ + 1]
    /\ upc' = IF uout.next = Len(uin.path.files) THEN "returned" ELSE "batch"
    /\ UNCHANGED uin
    /\ UNCHANGED <<pipelineVars, convertVars>>

\* main(): the single-file branch, with its try/except
MainSingle ==
    /\ upc = "single"
    /\ IF SingleRaises(uin.path, uin.runtime)
       THEN uout' = [uout EXCEPT !.printed = Append(@, "error")]
       ELSE uout' = [uout EXCEPT !.printed = Append(@, "created"),
                                 !.created = Append(@, 1)]
    /\ upc' = "returned"
    /\ UNCHANGED uin
    /\ UNCHANGED <<pipelineVars, convertVars>>

\* if __name__ == "__main__": main() has returned, the interpreter exits
MainExit ==
    /\ upc = "returned"
    /\ uout' = [uout EXCEPT !.exit = <<ExitStatus(TRUE)>>]
    /\ upc' = "exited"
    /\ UNCHANGED uin
    /\ UNCHANGED <<pipelineVars, convertVars>>

InitConvertMain ==
    /\ PipelineIdle
    /\ ConvertIdle
    /\ upc = "start"
    /\ uin \in {[batch |-> b, path |-> p, runtime |-> rt] :
                   b \in BOOLEAN, p \in InputPaths, rt \in Runtimes}
    /\ uout = [printed |-> <<>>, created |-> <<>>, next |-> 1, exit |-> <<>>]

NextConvertMain ==
    \/ MainArgs
    \/ MainBatchFile
    \/ MainSingle
    \/ MainExit

SpecConvertMain == InitConvertMain /\ [][NextConvertMain]_vars

\* the input markdown file does not exist
MissingInput == ~uin.batch /\ uin.path.kind = "missing"

\* batch mode on a directory without markdown files
EmptyBatch == uin.batch /\ uin.path.kind = "dir" /\ uin.path.files = <<>>

\* the files, among the first n of the directory, whose conversion succeeds
Convertible(n) ==
    SelectSeq(List([i \in 1..n |-> i]),
              LAMBDA i : ~ConvertRaises(uin.path.files[i], uin.runtime))

\* C30: in batch conversion a failure while converting one markdown file is
\* confined to that file: every other markdown file of the directory is
\* still attempted, in any order of failures and successes, and the PDFs
\* created earlier are kept.
C30_BatchFailureConfined ==
    /\ upc = "batch"
          => /\ uout.created = Convertible(uout.next - 1)
             /\ Len(uout.printed) = uout.next
    /\ (upc \in {"returned", "exited"} /\ uin.batch /\ uin.path.kind = "dir"
           /\ uin.path.files # <<>>)
          => /\ uout.created = Convertible(Len(uin.path.files))
             /\ Len(uout.printed) = Len(uin.path.files) + 1

C30_Witness ==
    /\ upc = "exited"
    /\ uin.batch
    /\ uin.path.kind = "dir"
    /\ Len(uin.path.files) = 2
    /\ ConvertRaises(uin.path.files[1], uin.runtime)
    /\ uout.created = <<2>>
    /\ uout.printed = <<"converting_files", "error_converting", "created">>

\* C14: the conversion command ends with a non-zero exit code when the
\* input markdown file does not exist and, in batch mode, when the input
\* directory contains no markdown files.
C14_ErrorExitCode ==
    (upc = "exited" /\ (MissingInput \/ EmptyBatch)) => uout.exit # <<0>>

(***************************************************************************)
(* src/pdf_generator.py: generate_full_run_pdf and its add_section         *)
(*                                                                         *)
(* A content is the sequence of its text blocks in order of appearance:    *)
(* the paragraphs that content.split("\n\n") gives and, inside a paragraph *)
(* that starts with "#", its lines.  bad tells whether reportlab's         *)
(* Paragraph() raises on the text the code hands it for that block.  A     *)
(* flowable is "Heading" (a Paragraph in a title style), "Paragraph" (one  *)
(* in body_style, its text escaped) or a spacer.                           *)
(***************************************************************************)
\* how many text blocks the content of the section under study has
MaxBlocks == 2

\* the fields of the result, in the order of the add_section calls
SectionFields ==
    <<"generation_output", "amplification_1_output", "amplification_2_output",
      "evaluation_output", "categorization_output", "synthesis_output">>

\* "blank": a paragraph that para.strip() empties; "regular": a paragraph
\* not starting with "#", none of whose lines begins with "#"; "mixed": a
\* paragraph of two lines, the second of which begins with "#"; "###", "##",
\* "#": a heading line of a paragraph that starts with "#"; "line": another
\* line of such a paragraph
BlockKinds == {"blank", "regular", "mixed", "###", "##", "#", "line"}

HeadingKinds == {"###", "##", "#"}

TextBlocks ==
    {[kind |-> "blank", bad |-> FALSE]}
       \cup [kind : BlockKinds \ {"blank"}, bad : BOOLEAN]

\* a "line" block only follows a heading line or another such line
WellFormed(c) ==
    \A i \in 1..Len(c) :
       c[i].kind = "line"
          => i > 1 /\ c[i - 1].kind \in HeadingKinds \cup {"line"}

\* the contents of a stage output; the empty sequence is the empty string
Contents ==
    {List(c) : c \in {d \in UNION {[1..n -> TextBlocks] : n \in 0..MaxBlocks} :
                         WellFormed(d)}}

PlainContent == <<[kind |-> "regular", bad |-> FALSE]>>

\* the flowable appended for one block, or the exception that leaves
\* add_section: only the regular paragraph is built inside try/except
BlockOutcome(b) ==
    CASE b.kind = "blank" ->
           [raised |-> FALSE, flowables |-> <<>>]
      [] b.kind \in {"regular", "mixed"} ->
           [raised |-> FALSE,
            flowables |-> IF b.bad THEN <<"Spacer">> ELSE <<"Paragraph">>]
      [] b.kind = "line" ->
           [raised |-> b.bad,
            flowables |-> IF b.bad THEN <<>> ELSE <<"Paragraph">>]
      [] OTHER ->
           [raised |-> b.bad,
            flowables |-> IF b.bad THEN <<>> ELSE <<"Heading">>]

RECURSIVE ContentOutcome(_, _, _)
\* the loops of add_section over the blocks from index i on
ContentOutcome(c, i, flowables) ==
    IF i > Len(c) THEN [raised |-> FALSE, flowables |-> flowables]
    ELSE IF BlockOutcome(c[i]).raised
    THEN [raised |-> TRUE, flowables |-> flowables]
    ELSE ContentOutcome(c, i + 1, flowables \o BlockOutcome(c[i]).flowables)

\* add_section(title, intro_text, content): what it appends to the story
AddSection(c) ==
    IF c = <<>>
    THEN [raised |-> FALSE,
          flowables |-> <<"Title", "Intro", "Spacer10", "NoOutput",
                          "PageBreak">>]
    ELSE LET body == ContentOutcome(c, 1, <<"Title", "Intro", "Spacer10">>)
         IN  IF body.raised THEN body
             ELSE [raised |-> FALSE,
                   flowables |-> body.flowables \o <<"PageBreak">>]

\* the cover page and the table of contents
FullPdfCover ==
    /\ upc = "start"
    /\ uout' = [uout EXCEPT !.story = <<<<"Cover", "Contents">>>>]
    /\ upc' = "sections"
    /\ UNCHANGED uin
    /\ UNCHANGED <<pipelineVars, convertVars>>

\* one add_section call
FullPdfSection ==
    /\ upc = "sections"
    /\ uout.next <= Len(SectionFields)
    /\ LET o == AddSection(uin.result[SectionFields[uout.next]])
       IN  /\ uout' = [uout EXCEPT !.story = Append(@, o.flowables),
                                   !.next = @ + 1]
           /\ upc' = IF o.raised THEN "raised" ELSE "sections"
    /\ UNCHANGED uin
    /\ UNCHANGED <<pipelineVars, convertVars>>

\* doc.build(story); return output_path
FullPdfBuild ==
    /\ upc = "sections"
    /\ uout.next > Len(SectionFields)
    /\ uout' = [uout EXCEPT !.built = TRUE]
    /\ upc' = "built"
    /\ UNCHANGED uin
    /\ UNCHANGED <<pipelineVars, convertVars>>

InitFullPdf ==
    /\ PipelineIdle
    /\ ConvertIdle
    /\ upc = "start"
    /\ uin \in {[result |-> [f \in Range(SectionFields) |->
                               IF f = SectionFields[k] THEN c ELSE rest]] :
                   k \in 1..Len(SectionFields), c \in Contents,
                   rest \in {<<>>, PlainContent}}
    /\ uout = [story |-> <<>>, next |-> 1, built |-> FALSE]

NextFullPdf ==
    \/ FullPdfCover
    \/ FullPdfSection
    \/ FullPdfBuild

SpecFullPdf == InitFullPdf /\ [][NextFullPdf]_vars

\* what a section shows when every block is rendered, a failing block as
\* the blank spacer
Contained(c) ==
    IF c = <<>>
    THEN <<"Title", "Intro", "Spacer10", "NoOutput", "PageBreak">>
    ELSE <<"Title", "Intro", "Spacer10">>
            \o Flatten(List([i \in 1..Len(c) |->
                               IF c[i].kind = "blank" THEN <<>>
                               ELSE IF c[i].bad THEN <<"Spacer">>
                               ELSE IF c[i].kind \in HeadingKinds
                               THEN <<"Heading">>
                               ELSE <<"Paragraph">>]))
            \o <<"PageBreak">>

\* C17: in the full-run PDF a layout failure on any single text block, a
\* heading line or a body paragraph, is caught for that block alone and
\* replaced by a blank spacer: the other blocks and sections are rendered
\* and the document is produced.
C17_BlockFailureContained ==
    /\ upc # "raised"
    /\ upc = "built"
          => \A k \in 1..Len(SectionFields) :
                uout.story[k + 1] = Contained(uin.result[SectionFields[k]])

\* the flowables of a block when each of its lines that begins with "#" is a
\* heading and each other line is body text
LineByLine(b) ==
    CASE b.kind = "blank" -> <<>>
      [] b.kind = "mixed" -> <<"Paragraph", "Heading">>
      [] b.kind \in HeadingKinds -> <<"Heading">>
      [] OTHER -> <<"Paragraph">>

NoBadBlock ==
    \A f \in Range(SectionFields) :
       \A i \in 1..Len(uin.result[f]) : ~uin.result[f][i].bad

\* C27: in each stage section of the full-run PDF every line beginning with
\* '#', '##' or '###' is rendered as a heading and every other line as
\* escaped body text, blank lines delimiting paragraphs, wherever the
\* heading line stands inside its blank-line-delimited block.
C27_HeadingLinesAnywhere ==
    (upc = "built" /\ NoBadBlock)
       => \A k \in 1..Len(SectionFields) :
             uin.result[SectionFields[k]] # <<>>
                => uout.story[k + 1] =
                      <<"Title", "Intro", "Spacer10">>
                         \o Flatten(List(
                               [i \in 1..Len(uin.result[SectionFields[k]]) |->
                                  LineByLine(uin.result[SectionFields[k]][i])]))
                         \o <<"PageBreak">>

====
